---- MODULE Spec2Model ----
(***************************************************************************)
(* Model of the LittleFS packet handler of duino_littlefs                   *)
(* (src/src/LittleFsPacketHandler.cpp): one request packet is decoded, the  *)
(* filesystem is called and one response packet is produced.                *)
(***************************************************************************)
EXTENDS Integers, Sequences, FiniteSets, TLC

(***************************************************************************)
(* Bounds of the model.                                                     *)
(***************************************************************************)
\* Largest number of data bytes one file can hold before the medium is full.
MaxFileLen == 2
\* Largest directory index a LIST request asks for.
MaxIndex == 3

(***************************************************************************)
(* Program constants: LittleFsPacketHandler::Command, ::Error, ::Flags.     *)
(***************************************************************************)
FORMAT == 64
INFO == 65
LIST == 66
MKDIR == 67
REMOVE == 68
RENAME == 69
COPY == 70
READ == 71
WRITE == 72
APPEND == 73
RMDIR == 74

NONE == 0
UNABLE_TO_OPEN_FILE == 1
WRITE_FAILED == 2
READ_FAILED == 3
SEEK_FAILED == 4
FORMAT_FAILED == 5
MKDIR_FAILED == 6
RMDIR_FAILED == 7
REMOVE_FAILED == 8

DIR == 1

\* The open modes of FS.h, as handlePacket passes them to handleWriteAppend.
FILE_READ == "r"
FILE_WRITE == "w"
FILE_APPEND == "a"

Commands == {FORMAT, INFO, LIST, MKDIR, REMOVE, RENAME, COPY, READ, WRITE, APPEND, RMDIR}

(***************************************************************************)
(* Wire layout: little-endian integers, null-terminated strings.            *)
(***************************************************************************)
Min(a, b) == IF a < b THEN a ELSE b
Max(a, b) == IF a > b THEN a ELSE b

\* The w bytes of n, least significant first.
LE(n, w) == [i \in 1..w |-> (n \div (256 ^ (i - 1))) % 256]

\* The number a little-endian byte sequence stands for.
RECURSIVE FromLE(_)
FromLE(bs) == IF bs = <<>> THEN 0 ELSE bs[1] + 256 * FromLE(Tail(bs))

\* A string with its terminating null.
CStr(s) == s \o <<0>>

\* strlen: the number of bytes before the first null.
RECURSIVE strlen(_)
strlen(bs) == IF bs = <<>> \/ bs[1] = 0 THEN 0 ELSE 1 + strlen(Tail(bs))

(***************************************************************************)
(* Packet (duino_bus): a command byte and a data buffer of a fixed          *)
(* capacity.  mem is the memory written through the packet, from the start  *)
(* of its buffer; len is the packet's data length; cap its capacity.        *)
(***************************************************************************)
NewPacket(cap) == [command |-> 0, mem |-> <<>>, len |-> 0, cap |-> cap]

setCommand(p, c) == [p EXCEPT !.command = c]

\* The data length never passes the capacity, so the difference does not wrap.
getSpaceRemaining(p) == p.cap - p.len

\* A store of bytes at offset pos of the buffer, through a raw pointer.
Store(mem, pos, bs) ==
    [i \in 1..Max(Len(mem), pos + Len(bs)) |->
        IF i > pos /\ i <= pos + Len(bs) THEN bs[i - pos]
        ELSE IF i <= Len(mem) THEN mem[i] ELSE 0]

Poke(p, pos, bs) == [p EXCEPT !.mem = Store(p.mem, pos, bs)]

\* getWriteData(n): the write position is p.len; the length advances by n.
getWriteData(p, n) == [p EXCEPT !.len = p.len + n]

\* appendData: the bytes are added when they fit, and dropped otherwise.
appendData(p, bs) ==
    IF Len(bs) <= getSpaceRemaining(p)
    THEN [p EXCEPT !.mem = Store(p.mem, p.len, bs), !.len = p.len + Len(bs)]
    ELSE p

appendByte(p, b) == appendData(p, <<b>>)

\* The payload the receiver of the packet sees.
Payload(p) == SubSeq(p.mem, 1, Min(p.len, Len(p.mem)))

(***************************************************************************)
(* Unpacker (duino_bus): a cursor over the request's data.  An unpack that  *)
(* needs more bytes than remain fails and stores nothing.                   *)
(***************************************************************************)
NewUnpacker(cmd) == [data |-> cmd.data, pos |-> 0]

Remaining(u) == Len(u.data) - u.pos

UnpackInt(u, w) ==
    IF Remaining(u) >= w
    THEN [ok |-> TRUE, val |-> FromLE(SubSeq(u.data, u.pos + 1, u.pos + w)),
          u |-> [u EXCEPT !.pos = u.pos + w]]
    ELSE [ok |-> FALSE, val |-> 0, u |-> u]

UnpackStr(u) ==
    LET rest == SubSeq(u.data, u.pos + 1, Len(u.data))
        n == strlen(rest)
    IN  IF n < Len(rest)
        THEN [ok |-> TRUE, val |-> SubSeq(rest, 1, n), u |-> [u EXCEPT !.pos = u.pos + n + 1]]
        ELSE [ok |-> FALSE, val |-> <<>>, u |-> u]

UnpackBytes(u, n) ==
    IF Remaining(u) >= n
    THEN [ok |-> TRUE, val |-> SubSeq(u.data, u.pos + 1, u.pos + n),
          u |-> [u EXCEPT !.pos = u.pos + n]]
    ELSE [ok |-> FALSE, val |-> <<>>, u |-> u]

(***************************************************************************)
(* The filesystem (LittleFS of the board support package): a root           *)
(* directory whose entries are regular files and (empty) directories,       *)
(* traversed in the order Order.                                            *)
(***************************************************************************)
Names == {"a", "bb", "d"}
Order == <<"a", "bb", "d">>

NameBytes(n) == CASE n = "a" -> <<97>> [] n = "bb" -> <<98, 98>> [] OTHER -> <<100>>

RootPath == <<47>>
PathOf(n) == RootPath \o NameBytes(n)
\* A path below a directory that does not exist, and the address of no string.
OrphanPath == <<47, 110, 47, 97>>
Wild == <<-1>>

Absent == [kind |-> "none", data |-> <<>>]
EmptyDir == [kind |-> "dir", data |-> <<>>]
EmptyFile == [kind |-> "file", data |-> <<>>]
EmptyFs == [n \in Names |-> Absent]

IsEntryPath(path) == \E n \in Names : PathOf(n) = path
EntryOf(path) == CHOOSE n \in Names : PathOf(n) = path

\* The names of the root directory's entries, in traversal order.
Listing(fs) == SelectSeq(Order, LAMBDA n : fs[n].kind # "none")

BlockSize == 4096
BlockCount == 352
totalBytes(fs) == BlockSize * BlockCount
\* The root and every directory hold a pair of metadata blocks; small files are
\* stored inline in their directory's blocks.
usedBytes(fs) == BlockSize * (2 + 2 * Cardinality({n \in Names : fs[n].kind = "dir"}))

\* The time of the last write the filesystem reports for an entry.
getLastWrite(fs, n) == 300 + Len(fs[n].data)

\* The state a request is handled in: the filesystem, the calls made to it so
\* far and the number of File objects that hold an open file or directory.
NewWorld(fs, open) == [fs |-> fs, calls |-> <<>>, open |-> open]

Call(w, name) == [w EXCEPT !.calls = Append(w.calls, name)]

NullFile == [kind |-> "null", name |-> "", pos |-> 0, mode |-> ""]
IsOpen(f) == f.kind # "null"

\* LittleFS.format(): ok is the outcome the medium gives.
fsFormat(w, ok) ==
    [ok |-> ok, w |-> [Call(w, "format") EXCEPT !.fs = IF ok THEN EmptyFs ELSE w.fs]]

fsMkdir(w, path) ==
    LET ok == IsEntryPath(path) /\ w.fs[EntryOf(path)].kind = "none"
    IN  [ok |-> ok,
         w |-> [Call(w, "mkdir") EXCEPT
                  !.fs = IF ok THEN [w.fs EXCEPT ![EntryOf(path)] = EmptyDir] ELSE w.fs]]

fsRmdir(w, path) ==
    LET ok == IsEntryPath(path) /\ w.fs[EntryOf(path)].kind = "dir"
    IN  [ok |-> ok,
         w |-> [Call(w, "rmdir") EXCEPT
                  !.fs = IF ok THEN [w.fs EXCEPT ![EntryOf(path)] = Absent] ELSE w.fs]]

fsRemove(w, path) ==
    LET ok == IsEntryPath(path) /\ w.fs[EntryOf(path)].kind = "file"
    IN  [ok |-> ok,
         w |-> [Call(w, "remove") EXCEPT
                  !.fs = IF ok THEN [w.fs EXCEPT ![EntryOf(path)] = Absent] ELSE w.fs]]

\* LittleFS.open(path, mode): a directory opens as a directory in every mode;
\* "r" opens an existing file; "w" creates or truncates; "a" creates or keeps.
fsOpen(w, path, mode) ==
    LET w1 == Call(w, "open")
        opened(f, fs) == [file |-> f, w |-> [w1 EXCEPT !.fs = fs, !.open = w1.open + 1]]
        failed == [file |-> NullFile, w |-> w1]
    IN  IF path = RootPath
        THEN opened([kind |-> "dir", name |-> "/", pos |-> 0, mode |-> mode], w.fs)
        ELSE IF ~IsEntryPath(path) THEN failed
        ELSE LET n == EntryOf(path)
                 e == w.fs[n]
             IN  CASE e.kind = "dir" ->
                        opened([kind |-> "dir", name |-> n, pos |-> 0, mode |-> mode], w.fs)
                   [] e.kind = "file" /\ mode = FILE_READ ->
                        opened([kind |-> "file", name |-> n, pos |-> 0, mode |-> mode], w.fs)
                   [] e.kind = "file" /\ mode = FILE_APPEND ->
                        opened([kind |-> "file", name |-> n, pos |-> Len(e.data), mode |-> mode],
                               w.fs)
                   [] e.kind = "none" /\ mode = FILE_READ -> failed
                   [] OTHER ->
                        opened([kind |-> "file", name |-> n, pos |-> 0, mode |-> mode],
                               [w.fs EXCEPT ![n] = EmptyFile])

\* File::close(), and the release of a File object that leaves its scope or is
\* assigned over: an open file or directory is closed, a null File is left alone.
fileClose(w, f) == IF IsOpen(f) THEN [Call(w, "close") EXCEPT !.open = w.open - 1] ELSE w
Release(w, f) == IF IsOpen(f) THEN [w EXCEPT !.open = w.open - 1] ELSE w

\* File::seek(offset): a regular file accepts every offset a signed long holds
\* (the offsets of this model all do); a directory accepts none.
fileSeek(w, f, offset) ==
    LET ok == f.kind = "file"
    IN  [ok |-> ok, file |-> IF ok THEN [f EXCEPT !.pos = offset] ELSE f, w |-> Call(w, "seek")]

\* File::read(buf, length): the bytes from the position to the end, at most length.
fileRead(w, f, length) ==
    LET data == IF f.kind = "file" THEN w.fs[f.name].data ELSE <<>>
        n == IF f.pos < Len(data) THEN Min(length, Len(data) - f.pos) ELSE 0
    IN  [bytes |-> SubSeq(data, f.pos + 1, f.pos + n), w |-> Call(w, "read")]

\* File::write(buf, length): the number of bytes accepted; the medium takes
\* bytes at the end of the file until the file holds MaxFileLen of them.
fileWrite(w, f, bytes, length) ==
    LET old == IF f.kind = "file" THEN w.fs[f.name].data ELSE <<>>
        n == IF f.kind = "file" THEN Min(length, MaxFileLen - Len(old)) ELSE 0
    IN  [n |-> n,
         w |-> [Call(w, "write") EXCEPT
                  !.fs = IF n > 0
                         THEN [w.fs EXCEPT ![f.name].data = old \o SubSeq(bytes, 1, n)]
                         ELSE w.fs]]

\* File::openNextFile() on the File dir whose cursor is at cur: the next entry
\* of an open root directory, and a null File in every other case.
openNextFile(w, dir, cur) ==
    LET w1 == Call(w, "openNextFile")
        ls == Listing(w.fs)
    IN  IF dir.kind = "dir" /\ dir.name = "/" /\ cur < Len(ls)
        THEN [file |-> [kind |-> w.fs[ls[cur + 1]].kind, name |-> ls[cur + 1], pos |-> 0,
                        mode |-> FILE_READ],
              cur |-> cur + 1, w |-> [w1 EXCEPT !.open = w1.open + 1]]
        ELSE [file |-> NullFile, cur |-> cur, w |-> w1]

(***************************************************************************)
(* The handlers.  Each takes the request cmd, the response packet rsp, the  *)
(* world w and env, what the handler does not decide: the values its local  *)
(* variables hold when an unpack fails and leaves them unset (str, num,     *)
(* len, fill) and whether the medium lets a format succeed (formatOk).      *)
(* Each yields the response, the world and fault: TRUE when a filesystem    *)
(* call was handed the address of no string or buffer, and the handler      *)
(* never returned.                                                          *)
(***************************************************************************)
Done(rsp, w) == [rsp |-> rsp, w |-> w, fault |-> FALSE]
Fault(rsp, w) == [rsp |-> rsp, w |-> w, fault |-> TRUE]

\* handleCopy answering with an error code as the other handlers do.
handleCopy_WithCode(cmd, rsp, w, env) == Done(appendByte(setCommand(rsp, COPY), NONE), w)

handleCopy(cmd, rsp, w, env) == Done(setCommand(rsp, COPY), w)

\* handleRename as a copy of handleCopy that kept its opcode.
handleRename_AsCopy(cmd, rsp, w, env) == Done(setCommand(rsp, COPY), w)

handleRename(cmd, rsp, w, env) == Done(setCommand(rsp, RENAME), w)

\* handleFormat that does not look at what LittleFS.format returned.
handleFormat_Unchecked(cmd, rsp, w, env) ==
    LET rsp1 == setCommand(rsp, FORMAT)
        r == fsFormat(w, env.formatOk)
    IN  Done(appendByte(rsp1, NONE), r.w)

handleFormat(cmd, rsp, w, env) ==
    LET rsp1 == setCommand(rsp, FORMAT)
        r == fsFormat(w, env.formatOk)
    IN  IF r.ok THEN Done(appendByte(rsp1, NONE), r.w)
        ELSE Done(appendByte(rsp1, FORMAT_FAILED), r.w)

\* handleInfo filling the two fields of InfoResponse the other way round.
handleInfo_Swapped(cmd, rsp, w, env) ==
    LET rsp1 == setCommand(rsp, INFO)
        info == LE(usedBytes(w.fs), 4) \o LE(totalBytes(w.fs), 4)
        w1 == Call(Call(w, "totalBytes"), "usedBytes")
    IN  Done(appendData(rsp1, info), w1)

handleInfo(cmd, rsp, w, env) ==
    LET rsp1 == setCommand(rsp, INFO)
        info == LE(totalBytes(w.fs), 4) \o LE(usedBytes(w.fs), 4)
        w1 == Call(Call(w, "totalBytes"), "usedBytes")
    IN  Done(appendData(rsp1, info), w1)

handleMkDir(cmd, rsp, w, env) ==
    LET rsp1 == setCommand(rsp, MKDIR)
        s == UnpackStr(NewUnpacker(cmd))
        dirName == IF s.ok THEN s.val ELSE env.str
        r == fsMkdir(w, dirName)
    IN  IF dirName = Wild THEN Fault(rsp1, w)
        ELSE IF r.ok THEN Done(appendByte(rsp1, NONE), r.w)
        ELSE Done(appendByte(rsp1, MKDIR_FAILED), r.w)

handleRemove(cmd, rsp, w, env) ==
    LET rsp1 == setCommand(rsp, REMOVE)
        s == UnpackStr(NewUnpacker(cmd))
        fileName == IF s.ok THEN s.val ELSE env.str
        r == fsRemove(w, fileName)
    IN  IF fileName = Wild THEN Fault(rsp1, w)
        ELSE IF r.ok THEN Done(appendByte(rsp1, NONE), r.w)
        ELSE Done(appendByte(rsp1, REMOVE_FAILED), r.w)

\* handleRmDir with the test of LittleFS.rmdir's result turned round.
handleRmDir_Inverted(cmd, rsp, w, env) ==
    LET rsp1 == setCommand(rsp, RMDIR)
        s == UnpackStr(NewUnpacker(cmd))
        dirName == IF s.ok THEN s.val ELSE env.str
        r == fsRmdir(w, dirName)
    IN  IF dirName = Wild THEN Fault(rsp1, w)
        ELSE IF ~r.ok THEN Done(appendByte(rsp1, NONE), r.w)
        ELSE Done(appendByte(rsp1, RMDIR_FAILED), r.w)

handleRmDir(cmd, rsp, w, env) ==
    LET rsp1 == setCommand(rsp, RMDIR)
        s == UnpackStr(NewUnpacker(cmd))
        dirName == IF s.ok THEN s.val ELSE env.str
        r == fsRmdir(w, dirName)
    IN  IF dirName = Wild THEN Fault(rsp1, w)
        ELSE IF r.ok THEN Done(appendByte(rsp1, NONE), r.w)
        ELSE Done(appendByte(rsp1, RMDIR_FAILED), r.w)

\* The first loop of handleList counting up to index without moving on in the
\* directory.
SkipEntries_CountsOnly(w, dir, cur, file, fileNum, index) ==
    [w |-> w, cur |-> cur, file |-> file, fileNum |-> IF fileNum < index THEN index ELSE fileNum]

\* The first loop of handleList: index entries are passed over.
RECURSIVE SkipEntries(_, _, _, _, _, _)
SkipEntries(w, dir, cur, file, fileNum, index) ==
    IF fileNum < index
    THEN LET nx == openNextFile(w, dir, cur)
         IN  SkipEntries(Release(nx.w, file), dir, nx.cur, nx.file, (fileNum + 1) % 65536, index)
    ELSE [w |-> w, cur |-> cur, file |-> file, fileNum |-> fileNum]

\* The second loop of handleList with an entrySize that forgets the name's null.
RECURSIVE EmitEntries_NoNull(_, _, _, _, _, _)
EmitEntries_NoNull(rsp, w, dir, cur, file, fileNum) ==
    IF ~IsOpen(file) THEN [rsp |-> rsp, w |-> w, file |-> file]
    ELSE LET flags == IF file.kind = "dir" THEN DIR ELSE 0
             fileSize == Len(w.fs[file.name].data)
             timestamp == getLastWrite(w.fs, file.name)
             filename == CStr(NameBytes(file.name))
             entrySize == 2 + 1 + 4 + 4 + strlen(filename)
         IN  IF entrySize > getSpaceRemaining(rsp) THEN [rsp |-> rsp, w |-> w, file |-> file]
             ELSE LET rsp1 == appendData(rsp, LE(fileNum, 2))
                      rsp2 == appendData(rsp1, LE(flags, 1))
                      rsp3 == appendData(rsp2, LE(fileSize, 4))
                      rsp4 == appendData(rsp3, LE(timestamp, 4))
                      rsp5 == appendData(rsp4, SubSeq(filename, 1, strlen(filename) + 1))
                      nx == openNextFile(w, dir, cur)
                  IN  EmitEntries_NoNull(rsp5, Release(nx.w, file), dir, nx.cur, nx.file,
                                         (fileNum + 1) % 65536)

\* The second loop of handleList: an entry is appended when all of it fits.
RECURSIVE EmitEntries(_, _, _, _, _, _)
EmitEntries(rsp, w, dir, cur, file, fileNum) ==
    IF ~IsOpen(file) THEN [rsp |-> rsp, w |-> w, file |-> file]
    ELSE LET flags == IF file.kind = "dir" THEN DIR ELSE 0
             fileSize == Len(w.fs[file.name].data)
             timestamp == getLastWrite(w.fs, file.name)
             filename == CStr(NameBytes(file.name))
             entrySize == 2 + 1 + 4 + 4 + strlen(filename) + 1
         IN  IF entrySize > getSpaceRemaining(rsp) THEN [rsp |-> rsp, w |-> w, file |-> file]
             ELSE LET rsp1 == appendData(rsp, LE(fileNum, 2))
                      rsp2 == appendData(rsp1, LE(flags, 1))
                      rsp3 == appendData(rsp2, LE(fileSize, 4))
                      rsp4 == appendData(rsp3, LE(timestamp, 4))
                      rsp5 == appendData(rsp4, SubSeq(filename, 1, strlen(filename) + 1))
                      nx == openNextFile(w, dir, cur)
                  IN  EmitEntries(rsp5, Release(nx.w, file), dir, nx.cur, nx.file,
                                  (fileNum + 1) % 65536)

handleList(cmd, rsp, w, env) ==
    LET u1 == UnpackInt(NewUnpacker(cmd), 2)
        index == IF u1.ok THEN u1.val ELSE env.num
        u2 == UnpackStr(u1.u)
        dirName == IF u2.ok THEN u2.val ELSE env.str
        o == fsOpen(w, dirName, FILE_READ)
        first == openNextFile(o.w, o.file, 0)
        sk == SkipEntries(first.w, o.file, first.cur, first.file, 0, index)
        rsp1 == setCommand(rsp, LIST)
        em == EmitEntries(rsp1, sk.w, o.file, sk.cur, sk.file, sk.fileNum)
    IN  IF dirName = Wild THEN Fault(rsp, w)
        ELSE Done(em.rsp, Release(Release(em.w, em.file), o.file))

\* handleRead opening the file in the mode of a WRITE.
handleRead_OpensToWrite(cmd, rsp, w, env) ==
    LET u1 == UnpackStr(NewUnpacker(cmd))
        filename == IF u1.ok THEN u1.val ELSE env.str
        u2 == UnpackInt(u1.u, 4)
        offset == IF u2.ok THEN u2.val ELSE env.num
        u3 == UnpackInt(u2.u, 4)
        length == IF u3.ok THEN u3.val ELSE env.len
        rsp1 == setCommand(rsp, READ)
        errPtr == rsp1.len
        rsp2 == appendData(rsp1, LE(NONE, 1))
        rsp3 == appendData(rsp2, LE(offset, 4))
        lenPtr == rsp3.len
        rsp4 == appendData(rsp3, LE(length, 4))
        o == fsOpen(w, filename, FILE_WRITE)
        sk == fileSeek(o.w, o.file, offset)
        rd == fileRead(sk.w, sk.file, length)
        rsp5 == Poke(rsp4, rsp4.len, rd.bytes)
        rsp6 == Poke(rsp5, lenPtr, LE(Len(rd.bytes), 4))
        rsp7 == getWriteData(rsp6, FromLE(SubSeq(rsp6.mem, lenPtr + 1, lenPtr + 4)))
    IN  IF length > getSpaceRemaining(rsp4)
        THEN Done(Poke(Poke(rsp4, errPtr, LE(READ_FAILED, 1)), lenPtr, LE(0, 4)), w)
        ELSE IF filename = Wild THEN Fault(rsp4, w)
        ELSE IF ~IsOpen(o.file)
        THEN Done(Poke(rsp4, errPtr, LE(UNABLE_TO_OPEN_FILE, 1)), Release(o.w, o.file))
        ELSE IF ~sk.ok
        THEN Done(Poke(rsp4, errPtr, LE(SEEK_FAILED, 1)), Release(sk.w, sk.file))
        ELSE Done(Poke(rsp7, errPtr, LE(NONE, 1)), Release(fileClose(rd.w, sk.file), NullFile))

\* handleRead reading the file from where LittleFS.open left it.
handleRead_FromStart(cmd, rsp, w, env) ==
    LET u1 == UnpackStr(NewUnpacker(cmd))
        filename == IF u1.ok THEN u1.val ELSE env.str
        u2 == UnpackInt(u1.u, 4)
        offset == IF u2.ok THEN u2.val ELSE env.num
        u3 == UnpackInt(u2.u, 4)
        length == IF u3.ok THEN u3.val ELSE env.len
        rsp1 == setCommand(rsp, READ)
        errPtr == rsp1.len
        rsp2 == appendData(rsp1, LE(NONE, 1))
        rsp3 == appendData(rsp2, LE(offset, 4))
        lenPtr == rsp3.len
        rsp4 == appendData(rsp3, LE(length, 4))
        o == fsOpen(w, filename, FILE_READ)
        sk == fileSeek(o.w, o.file, offset)
        rd == fileRead(sk.w, o.file, length)
        rsp5 == Poke(rsp4, rsp4.len, rd.bytes)
        rsp6 == Poke(rsp5, lenPtr, LE(Len(rd.bytes), 4))
        rsp7 == getWriteData(rsp6, FromLE(SubSeq(rsp6.mem, lenPtr + 1, lenPtr + 4)))
    IN  IF length > getSpaceRemaining(rsp4)
        THEN Done(Poke(Poke(rsp4, errPtr, LE(READ_FAILED, 1)), lenPtr, LE(0, 4)), w)
        ELSE IF filename = Wild THEN Fault(rsp4, w)
        ELSE IF ~IsOpen(o.file)
        THEN Done(Poke(rsp4, errPtr, LE(UNABLE_TO_OPEN_FILE, 1)), Release(o.w, o.file))
        ELSE IF ~sk.ok
        THEN Done(Poke(rsp4, errPtr, LE(SEEK_FAILED, 1)), Release(sk.w, sk.file))
        ELSE Done(Poke(rsp7, errPtr, LE(NONE, 1)), Release(fileClose(rd.w, sk.file), NullFile))

\* handleRead opening the file before it looks at the room the response has.
handleRead_OpensFirst(cmd, rsp, w, env) ==
    LET u1 == UnpackStr(NewUnpacker(cmd))
        filename == IF u1.ok THEN u1.val ELSE env.str
        u2 == UnpackInt(u1.u, 4)
        offset == IF u2.ok THEN u2.val ELSE env.num
        u3 == UnpackInt(u2.u, 4)
        length == IF u3.ok THEN u3.val ELSE env.len
        rsp1 == setCommand(rsp, READ)
        errPtr == rsp1.len
        rsp2 == appendData(rsp1, LE(NONE, 1))
        rsp3 == appendData(rsp2, LE(offset, 4))
        lenPtr == rsp3.len
        rsp4 == appendData(rsp3, LE(length, 4))
        o == fsOpen(w, filename, FILE_READ)
        sk == fileSeek(o.w, o.file, offset)
        rd == fileRead(sk.w, sk.file, length)
        rsp5 == Poke(rsp4, rsp4.len, rd.bytes)
        rsp6 == Poke(rsp5, lenPtr, LE(Len(rd.bytes), 4))
        rsp7 == getWriteData(rsp6, FromLE(SubSeq(rsp6.mem, lenPtr + 1, lenPtr + 4)))
    IN  IF filename = Wild THEN Fault(rsp4, w)
        ELSE IF length > getSpaceRemaining(rsp4)
        THEN Done(Poke(Poke(rsp4, errPtr, LE(READ_FAILED, 1)), lenPtr, LE(0, 4)),
                  Release(o.w, o.file))
        ELSE IF ~IsOpen(o.file)
        THEN Done(Poke(rsp4, errPtr, LE(UNABLE_TO_OPEN_FILE, 1)), Release(o.w, o.file))
        ELSE IF ~sk.ok
        THEN Done(Poke(rsp4, errPtr, LE(SEEK_FAILED, 1)), Release(sk.w, sk.file))
        ELSE Done(Poke(rsp7, errPtr, LE(NONE, 1)), Release(fileClose(rd.w, sk.file), NullFile))

\* handleRead holding the file by a handle that the SEEK_FAILED return leaves open.
handleRead_KeepsOpen(cmd, rsp, w, env) ==
    LET u1 == UnpackStr(NewUnpacker(cmd))
        filename == IF u1.ok THEN u1.val ELSE env.str
        u2 == UnpackInt(u1.u, 4)
        offset == IF u2.ok THEN u2.val ELSE env.num
        u3 == UnpackInt(u2.u, 4)
        length == IF u3.ok THEN u3.val ELSE env.len
        rsp1 == setCommand(rsp, READ)
        errPtr == rsp1.len
        rsp2 == appendData(rsp1, LE(NONE, 1))
        rsp3 == appendData(rsp2, LE(offset, 4))
        lenPtr == rsp3.len
        rsp4 == appendData(rsp3, LE(length, 4))
        o == fsOpen(w, filename, FILE_READ)
        sk == fileSeek(o.w, o.file, offset)
        rd == fileRead(sk.w, sk.file, length)
        rsp5 == Poke(rsp4, rsp4.len, rd.bytes)
        rsp6 == Poke(rsp5, lenPtr, LE(Len(rd.bytes), 4))
        rsp7 == getWriteData(rsp6, FromLE(SubSeq(rsp6.mem, lenPtr + 1, lenPtr + 4)))
    IN  IF length > getSpaceRemaining(rsp4)
        THEN Done(Poke(Poke(rsp4, errPtr, LE(READ_FAILED, 1)), lenPtr, LE(0, 4)), w)
        ELSE IF filename = Wild THEN Fault(rsp4, w)
        ELSE IF ~IsOpen(o.file)
        THEN Done(Poke(rsp4, errPtr, LE(UNABLE_TO_OPEN_FILE, 1)), Release(o.w, o.file))
        ELSE IF ~sk.ok
        THEN Done(Poke(rsp4, errPtr, LE(SEEK_FAILED, 1)), sk.w)
        ELSE Done(Poke(rsp7, errPtr, LE(NONE, 1)), Release(fileClose(rd.w, sk.file), NullFile))

handleRead(cmd, rsp, w, env) ==
    LET u1 == UnpackStr(NewUnpacker(cmd))
        filename == IF u1.ok THEN u1.val ELSE env.str
        u2 == UnpackInt(u1.u, 4)
        offset == IF u2.ok THEN u2.val ELSE env.num
        u3 == UnpackInt(u2.u, 4)
        length == IF u3.ok THEN u3.val ELSE env.len
        rsp1 == setCommand(rsp, READ)
        errPtr == rsp1.len
        rsp2 == appendData(rsp1, LE(NONE, 1))
        rsp3 == appendData(rsp2, LE(offset, 4))
        lenPtr == rsp3.len
        rsp4 == appendData(rsp3, LE(length, 4))
        o == fsOpen(w, filename, FILE_READ)
        sk == fileSeek(o.w, o.file, offset)
        rd == fileRead(sk.w, sk.file, length)
        rsp5 == Poke(rsp4, rsp4.len, rd.bytes)
        rsp6 == Poke(rsp5, lenPtr, LE(Len(rd.bytes), 4))
        rsp7 == getWriteData(rsp6, FromLE(SubSeq(rsp6.mem, lenPtr + 1, lenPtr + 4)))
    IN  IF length > getSpaceRemaining(rsp4)
        THEN Done(Poke(Poke(rsp4, errPtr, LE(READ_FAILED, 1)), lenPtr, LE(0, 4)), w)
        ELSE IF filename = Wild THEN Fault(rsp4, w)
        ELSE IF ~IsOpen(o.file)
        THEN Done(Poke(rsp4, errPtr, LE(UNABLE_TO_OPEN_FILE, 1)), Release(o.w, o.file))
        ELSE IF ~sk.ok
        THEN Done(Poke(rsp4, errPtr, LE(SEEK_FAILED, 1)), Release(sk.w, sk.file))
        ELSE Done(Poke(rsp7, errPtr, LE(NONE, 1)), Release(fileClose(rd.w, sk.file), NullFile))

\* handleWriteAppend opening the file in append mode whatever mode it is given.
handleWriteAppend_AlwaysAppends(mode, cmd, rsp, w, env) ==
    LET u1 == UnpackStr(NewUnpacker(cmd))
        filename == IF u1.ok THEN u1.val ELSE env.str
        u2 == UnpackInt(u1.u, 4)
        length == IF u2.ok THEN u2.val ELSE env.len
        u3 == UnpackBytes(u2.u, length)
        wild == ~u3.ok /\ env.fill = -1
        data == IF u3.ok THEN u3.val ELSE [i \in 1..Min(length, MaxFileLen) |-> env.fill]
        rsp1 == setCommand(rsp, cmd.command)
        o == fsOpen(w, filename, FILE_APPEND)
        wr == fileWrite(o.w, o.file, data, length)
    IN  IF filename = Wild THEN Fault(rsp, w)
        ELSE IF ~IsOpen(o.file)
        THEN Done(appendByte(rsp1, UNABLE_TO_OPEN_FILE), Release(o.w, o.file))
        ELSE IF wild /\ o.file.kind = "file" /\ length > 0 THEN Fault(rsp1, o.w)
        ELSE IF wr.n # length
        THEN Done(appendByte(rsp1, WRITE_FAILED), Release(wr.w, o.file))
        ELSE Done(appendByte(rsp1, NONE), Release(fileClose(wr.w, o.file), NullFile))

\* handleWriteAppend without the test of the File it opened.
handleWriteAppend_NoOpenCheck(mode, cmd, rsp, w, env) ==
    LET u1 == UnpackStr(NewUnpacker(cmd))
        filename == IF u1.ok THEN u1.val ELSE env.str
        u2 == UnpackInt(u1.u, 4)
        length == IF u2.ok THEN u2.val ELSE env.len
        u3 == UnpackBytes(u2.u, length)
        wild == ~u3.ok /\ env.fill = -1
        data == IF u3.ok THEN u3.val ELSE [i \in 1..Min(length, MaxFileLen) |-> env.fill]
        rsp1 == setCommand(rsp, cmd.command)
        o == fsOpen(w, filename, mode)
        wr == fileWrite(o.w, o.file, data, length)
    IN  IF filename = Wild THEN Fault(rsp, w)
        ELSE IF wild /\ o.file.kind = "file" /\ length > 0 THEN Fault(rsp1, o.w)
        ELSE IF wr.n # length
        THEN Done(appendByte(rsp1, WRITE_FAILED), Release(wr.w, o.file))
        ELSE Done(appendByte(rsp1, NONE), Release(fileClose(wr.w, o.file), NullFile))

handleWriteAppend(mode, cmd, rsp, w, env) ==
    LET u1 == UnpackStr(NewUnpacker(cmd))
        filename == IF u1.ok THEN u1.val ELSE env.str
        u2 == UnpackInt(u1.u, 4)
        length == IF u2.ok THEN u2.val ELSE env.len
        u3 == UnpackBytes(u2.u, length)
        wild == ~u3.ok /\ env.fill = -1
        data == IF u3.ok THEN u3.val ELSE [i \in 1..Min(length, MaxFileLen) |-> env.fill]
        rsp1 == setCommand(rsp, cmd.command)
        o == fsOpen(w, filename, mode)
        wr == fileWrite(o.w, o.file, data, length)
    IN  IF filename = Wild THEN Fault(rsp, w)
        ELSE IF ~IsOpen(o.file)
        THEN Done(appendByte(rsp1, UNABLE_TO_OPEN_FILE), Release(o.w, o.file))
        ELSE IF wild /\ o.file.kind = "file" /\ length > 0 THEN Fault(rsp1, o.w)
        ELSE IF wr.n # length
        THEN Done(appendByte(rsp1, WRITE_FAILED), Release(wr.w, o.file))
        ELSE Done(appendByte(rsp1, NONE), Release(fileClose(wr.w, o.file), NullFile))

\* handlePacket opening the file of a WRITE in append mode.
handlePacket_WriteAppends(cmd, rsp, w, env) ==
    LET c == cmd.command
        ran(r) == [ret |-> IF r.fault THEN "fault" ELSE "true", rsp |-> r.rsp, w |-> r.w]
    IN  CASE c = COPY -> ran(handleCopy(cmd, rsp, w, env))
          [] c = FORMAT -> ran(handleFormat(cmd, rsp, w, env))
          [] c = INFO -> ran(handleInfo(cmd, rsp, w, env))
          [] c = LIST -> ran(handleList(cmd, rsp, w, env))
          [] c = MKDIR -> ran(handleMkDir(cmd, rsp, w, env))
          [] c = REMOVE -> ran(handleRemove(cmd, rsp, w, env))
          [] c = RENAME -> ran(handleRename(cmd, rsp, w, env))
          [] c = READ -> ran(handleRead(cmd, rsp, w, env))
          [] c = WRITE -> ran(handleWriteAppend(FILE_APPEND, cmd, rsp, w, env))
          [] c = APPEND -> ran(handleWriteAppend(FILE_APPEND, cmd, rsp, w, env))
          [] c = RMDIR -> ran(handleRmDir(cmd, rsp, w, env))
          [] OTHER -> [ret |-> "false", rsp |-> rsp, w |-> w]

\* handlePacket opening the file of an APPEND in write mode.
handlePacket_AppendWrites(cmd, rsp, w, env) ==
    LET c == cmd.command
        ran(r) == [ret |-> IF r.fault THEN "fault" ELSE "true", rsp |-> r.rsp, w |-> r.w]
    IN  CASE c = COPY -> ran(handleCopy(cmd, rsp, w, env))
          [] c = FORMAT -> ran(handleFormat(cmd, rsp, w, env))
          [] c = INFO -> ran(handleInfo(cmd, rsp, w, env))
          [] c = LIST -> ran(handleList(cmd, rsp, w, env))
          [] c = MKDIR -> ran(handleMkDir(cmd, rsp, w, env))
          [] c = REMOVE -> ran(handleRemove(cmd, rsp, w, env))
          [] c = RENAME -> ran(handleRename(cmd, rsp, w, env))
          [] c = READ -> ran(handleRead(cmd, rsp, w, env))
          [] c = WRITE -> ran(handleWriteAppend(FILE_WRITE, cmd, rsp, w, env))
          [] c = APPEND -> ran(handleWriteAppend(FILE_WRITE, cmd, rsp, w, env))
          [] c = RMDIR -> ran(handleRmDir(cmd, rsp, w, env))
          [] OTHER -> [ret |-> "false", rsp |-> rsp, w |-> w]

\* handlePacket with return true after the switch.
handlePacket_EndsTrue(cmd, rsp, w, env) ==
    LET c == cmd.command
        ran(r) == [ret |-> IF r.fault THEN "fault" ELSE "true", rsp |-> r.rsp, w |-> r.w]
    IN  CASE c = COPY -> ran(handleCopy(cmd, rsp, w, env))
          [] c = FORMAT -> ran(handleFormat(cmd, rsp, w, env))
          [] c = INFO -> ran(handleInfo(cmd, rsp, w, env))
          [] c = LIST -> ran(handleList(cmd, rsp, w, env))
          [] c = MKDIR -> ran(handleMkDir(cmd, rsp, w, env))
          [] c = REMOVE -> ran(handleRemove(cmd, rsp, w, env))
          [] c = RENAME -> ran(handleRename(cmd, rsp, w, env))
          [] c = READ -> ran(handleRead(cmd, rsp, w, env))
          [] c = WRITE -> ran(handleWriteAppend(FILE_WRITE, cmd, rsp, w, env))
          [] c = APPEND -> ran(handleWriteAppend(FILE_APPEND, cmd, rsp, w, env))
          [] c = RMDIR -> ran(handleRmDir(cmd, rsp, w, env))
          [] OTHER -> [ret |-> "true", rsp |-> rsp, w |-> w]

\* handlePacket: ret is what it returns, and "fault" when it does not return.
handlePacket(cmd, rsp, w, env) ==
    LET c == cmd.command
        ran(r) == [ret |-> IF r.fault THEN "fault" ELSE "true", rsp |-> r.rsp, w |-> r.w]
    IN  CASE c = COPY -> ran(handleCopy(cmd, rsp, w, env))
          [] c = FORMAT -> ran(handleFormat(cmd, rsp, w, env))
          [] c = INFO -> ran(handleInfo(cmd, rsp, w, env))
          [] c = LIST -> ran(handleList(cmd, rsp, w, env))
          [] c = MKDIR -> ran(handleMkDir(cmd, rsp, w, env))
          [] c = REMOVE -> ran(handleRemove(cmd, rsp, w, env))
          [] c = RENAME -> ran(handleRename(cmd, rsp, w, env))
          [] c = READ -> ran(handleRead(cmd, rsp, w, env))
          [] c = WRITE -> ran(handleWriteAppend(FILE_WRITE, cmd, rsp, w, env))
          [] c = APPEND -> ran(handleWriteAppend(FILE_APPEND, cmd, rsp, w, env))
          [] c = RMDIR -> ran(handleRmDir(cmd, rsp, w, env))
          [] OTHER -> [ret |-> "false", rsp |-> rsp, w |-> w]

(***************************************************************************)
(* Requests, as the host packs them.                                        *)
(***************************************************************************)
MkCmd(c, data) == [command |-> c, data |-> data]
ListReq(index, dirName) == MkCmd(LIST, LE(index, 2) \o CStr(dirName))
PathReq(c, path) == MkCmd(c, CStr(path))
ReadReq(path, offset, length) == MkCmd(READ, CStr(path) \o LE(offset, 4) \o LE(length, 4))
WriteReq(c, path, bytes) == MkCmd(c, CStr(path) \o LE(Len(bytes), 4) \o bytes)
\* A request whose declared length ends after n bytes of its payload.
Cut(c, n) == [c EXCEPT !.data = SubSeq(c.data, 1, n)]

\* The inputs of the requests.  Regular files live at one path; directories
\* are made at three; OrphanPath can name nothing.
FilePaths == {PathOf("a"), OrphanPath}
DirPaths == {PathOf("a"), PathOf("bb"), PathOf("d")}
Contents == {<<>>, <<65>>, <<66, 67>>}
Offsets == {0, 1, 300}
Lengths == {0, 1, 2}
ListCaps == {0, 13, 26, 27, 40}
ReadCaps == {0, 5, 10, 40}
ByteCaps == {0, 40}
\* A path, the bytes to write there and the capacity of the response.
WriteInputs ==
    {<<PathOf("a"), bytes, 40>> : bytes \in Contents}
    \cup {<<OrphanPath, <<65>>, 40>>, <<PathOf("a"), <<65>>, 0>>}
\* A path, an offset, a length and the capacity of the response.
ReadInputs ==
    {<<PathOf("a"), offset, length, cap>> : offset \in Offsets, length \in Lengths, cap \in {10, 40}}
    \cup {<<PathOf("a"), n, n, cap>> : n \in {0, 1}, cap \in {0, 5}}
    \cup {<<OrphanPath, 1, 1, 40>>}
\* A path and the capacity of the response.
DirInputs == {<<path, 40>> : path \in DirPaths} \cup {<<PathOf("d"), 0>>}
RemoveInputs == {<<path, 40>> : path \in FilePaths \cup {PathOf("bb")}} \cup {<<PathOf("a"), 0>>}

\* What a RENAME or COPY request may carry: nothing, one path, two paths.
TwoPathPayloads ==
    {<<>>, CStr(PathOf("a")), CStr(PathOf("a")) \o CStr(PathOf("bb"))}
\* Such a payload and the capacity of the response.
TwoPathInputs == {<<data, 40>> : data \in TwoPathPayloads} \cup {<<CStr(PathOf("a")), 0>>}

Env0 == [str |-> <<>>, num |-> 0, len |-> 0, fill |-> 0, formatOk |-> TRUE]
\* What unset locals can hold: the address of some string or of none, a number.
Unset == {[Env0 EXCEPT !.str = PathOf("a"), !.len = 1, !.fill = 65],
          [Env0 EXCEPT !.str = <<>>, !.num = 1, !.len = 65535, !.fill = -1],
          [Env0 EXCEPT !.str = Wild, !.num = 2, !.len = 0, !.fill = -1]}

\* Requests cut short of the fields their opcode needs.
ShortRequests ==
    {Cut(ListReq(1, RootPath), n) : n \in {0, 2}}
    \cup {Cut(PathReq(c, PathOf("a")), 2) : c \in {MKDIR, REMOVE, RMDIR}}
    \cup {Cut(ReadReq(PathOf("a"), 0, 1), n) : n \in {0, 3, 10}}
    \cup {Cut(WriteReq(c, PathOf("a"), <<66, 67>>), n) : c \in {WRITE, APPEND}, n \in {2, 3, 8}}

(***************************************************************************)
(* State.                                                                   *)
(***************************************************************************)
VARIABLES
    fs,      \* the filesystem
    open,    \* the number of files and directories held open
    cmd,     \* the request handlePacket was last called with
    rsp,     \* the response packet of that call
    ret,     \* what that call returned: "true", "false", "fault"; "none" before the first
    calls,   \* the filesystem calls that call made
    hist,    \* the exchanges before the last one, newest last (kept by SpecSeq)
    page     \* the host that lists the root directory page by page (SpecPage)

vars == <<fs, open, cmd, rsp, ret, calls, hist, page>>

NoPage == [index |-> 0, acc |-> <<>>, done |-> TRUE, cap |-> 0]

Init ==
    /\ fs = EmptyFs
    /\ open = 0
    /\ cmd = MkCmd(0, <<>>)
    /\ rsp = NewPacket(0)
    /\ ret = "none"
    /\ calls = <<>>
    /\ hist = <<>>
    /\ page = NoPage

\* One call of handlePacket with a fresh response packet of capacity cap.
Handle(c, cap, env) ==
    \E r \in {handlePacket(c, NewPacket(cap), NewWorld(fs, open), env)} :
        /\ cmd' = c
        /\ rsp' = r.rsp
        /\ ret' = r.ret
        /\ calls' = r.w.calls
        /\ fs' = r.w.fs
        /\ open' = IF r.ret = "fault" THEN 0 ELSE r.w.open

Exchange(c, cap, env) == Handle(c, cap, env) /\ UNCHANGED <<hist, page>>

ReqFormat == \E cap \in ByteCaps, ok \in BOOLEAN :
    Exchange(MkCmd(FORMAT, <<>>), cap, [Env0 EXCEPT !.formatOk = ok])
ReqInfo == \E cap \in ReadCaps : Exchange(MkCmd(INFO, <<>>), cap, Env0)
ReqList == \E index \in 0..MaxIndex, cap \in ListCaps :
    Exchange(ListReq(index, RootPath), cap, Env0)
ReqListOther == \E dirName \in DirPaths \cup {OrphanPath} :
    Exchange(ListReq(0, dirName), 40, Env0)
ReqMkDir == \E in \in DirInputs : Exchange(PathReq(MKDIR, in[1]), in[2], Env0)
ReqRmDir == \E in \in DirInputs : Exchange(PathReq(RMDIR, in[1]), in[2], Env0)
ReqRemove == \E in \in RemoveInputs : Exchange(PathReq(REMOVE, in[1]), in[2], Env0)
ReqRename == \E in \in TwoPathInputs : Exchange(MkCmd(RENAME, in[1]), in[2], Env0)
ReqCopy == \E in \in TwoPathInputs : Exchange(MkCmd(COPY, in[1]), in[2], Env0)
ReqRead == \E in \in ReadInputs : Exchange(ReadReq(in[1], in[2], in[3]), in[4], Env0)
ReqWrite == \E in \in WriteInputs : Exchange(WriteReq(WRITE, in[1], in[2]), in[3], Env0)
ReqAppend == \E in \in WriteInputs : Exchange(WriteReq(APPEND, in[1], in[2]), in[3], Env0)
\* A request whose payload ends early, met by whatever the unset locals hold.
ReqShort == \E c \in ShortRequests, env \in Unset : Exchange(c, 40, env)
\* A request with an opcode of another handler.
ReqOther == \E c \in {1, 75} : Exchange(MkCmd(c, <<>>), 40, Env0)

Next ==
    \/ ReqFormat \/ ReqInfo \/ ReqList \/ ReqListOther \/ ReqMkDir \/ ReqRmDir \/ ReqRemove
    \/ ReqRename \/ ReqCopy \/ ReqRead \/ ReqWrite \/ ReqAppend \/ ReqShort \/ ReqOther

Spec == Init /\ [][Next]_vars

(***************************************************************************)
(* SpecSeq: requests on one path, with the two exchanges before the last    *)
(* one remembered, for the laws that span several requests.                 *)
(***************************************************************************)
\* What is remembered of an exchange: of a WRITE or APPEND the request and the
\* response's payload, and of every exchange the entry at PathOf("a") before and
\* after it.
Past ==
    LET wrote == cmd.command \in {WRITE, APPEND}
    IN  [cmd |-> IF wrote THEN cmd ELSE MkCmd(0, <<>>),
         payload |-> IF wrote THEN Payload(rsp) ELSE <<>>,
         before |-> IF hist = <<>> THEN Absent ELSE hist[Len(hist)].after,
         after |-> fs["a"]]

Remember == hist' = IF ret = "none" THEN <<>>
                    ELSE IF Len(hist) < 2 THEN Append(hist, Past)
                    ELSE <<hist[2], Past>>

Sequel(c, cap) == Handle(c, cap, Env0) /\ Remember /\ UNCHANGED page

SeqContents == {<<>>, <<65>>, <<66>>, <<66, 67>>}

SeqWrite == \E bytes \in SeqContents : Sequel(WriteReq(WRITE, PathOf("a"), bytes), 40)
SeqAppend == \E bytes \in SeqContents : Sequel(WriteReq(APPEND, PathOf("a"), bytes), 40)
SeqRead == \E length \in 0..(MaxFileLen + 1) : Sequel(ReadReq(PathOf("a"), 0, length), 40)
SeqRemove == Sequel(PathReq(REMOVE, PathOf("a")), 40)
SeqMkDir == Sequel(PathReq(MKDIR, PathOf("a")), 40)

NextSeq == SeqWrite \/ SeqAppend \/ SeqRead \/ SeqRemove \/ SeqMkDir

SpecSeq == Init /\ [][NextSeq]_vars

(***************************************************************************)
(* SpecPage: a host lists the root directory of an unchanging filesystem    *)
(* page by page: it asks from index 0, adds the entries it receives to acc  *)
(* and asks again from the next index, until a response holds no entry.     *)
(***************************************************************************)
\* The directory entries a LIST response holds, as the host unpacks them.
RECURSIVE ParseEntries(_)
ParseEntries(bs) ==
    IF Len(bs) < 12 THEN <<>>
    ELSE LET n == strlen(SubSeq(bs, 12, Len(bs)))
         IN  <<[index |-> FromLE(SubSeq(bs, 1, 2)), flags |-> bs[3],
                size |-> FromLE(SubSeq(bs, 4, 7)), mtime |-> FromLE(SubSeq(bs, 8, 11)),
                name |-> SubSeq(bs, 12, 11 + n)]>>
             \o ParseEntries(SubSeq(bs, 13 + n, Len(bs)))

PageFs ==
    {f \in [Names -> {Absent, EmptyDir, EmptyFile, [kind |-> "file", data |-> <<65>>],
                      [kind |-> "file", data |-> <<66, 67>>]}] :
        f["bb"].kind # "file" /\ f["d"].kind # "file"}

InitPage ==
    /\ fs \in PageFs
    /\ open = 0
    /\ cmd = MkCmd(0, <<>>)
    /\ rsp = NewPacket(0)
    /\ ret = "none"
    /\ calls = <<>>
    /\ hist = <<>>
    /\ page \in {[index |-> 0, acc |-> <<>>, done |-> FALSE, cap |-> cap] : cap \in ListCaps}

PageStep ==
    /\ ~page.done
    /\ Handle(ListReq(page.index, RootPath), page.cap, Env0)
    /\ LET got == ParseEntries(Payload(rsp'))
       IN  page' = IF got = <<>> THEN [page EXCEPT !.done = TRUE]
                   ELSE [page EXCEPT !.index = @ + Len(got), !.acc = @ \o got]
    /\ UNCHANGED hist

SpecPage == InitPage /\ [][PageStep]_vars /\ WF_vars(PageStep)

(***************************************************************************)
(* The wire layout of a directory entry (index u16, flags u8, size u32,     *)
(* mtime u32, name with its null), and what a filesystem holds.             *)
(***************************************************************************)
EntrySize(n) == 2 + 1 + 4 + 4 + Len(NameBytes(n)) + 1

EntryRecord(f, n, idx) ==
    LE(idx, 2) \o <<IF f[n].kind = "dir" THEN 1 ELSE 0>> \o LE(Len(f[n].data), 4)
    \o LE(getLastWrite(f, n), 4) \o NameBytes(n) \o <<0>>

\* The bytes the entries of ls from position i + 1 on take, the first k of them.
RECURSIVE RecordsFrom(_, _, _, _)
RecordsFrom(f, ls, i, k) ==
    IF k = 0 THEN <<>>
    ELSE RecordsFrom(f, ls, i, k - 1) \o EntryRecord(f, ls[i + k], i + k - 1)

\* How many of the entries from index i on fit, one after the other, in cap bytes.
FitCount(f, i, cap) ==
    LET ls == Listing(f)
        left == Max(Len(ls) - i, 0)
    IN  CHOOSE k \in 0..left :
            /\ Len(RecordsFrom(f, ls, i, k)) <= cap
            /\ k < left => Len(RecordsFrom(f, ls, i, k + 1)) > cap

\* The entries of the root directory, as a host sees them.
DirEntries(f) ==
    LET ls == Listing(f)
    IN  [j \in 1..Len(ls) |->
            [index |-> j - 1, flags |-> IF f[ls[j]].kind = "dir" THEN 1 ELSE 0,
             size |-> Len(f[ls[j]].data), mtime |-> getLastWrite(f, ls[j]),
             name |-> NameBytes(ls[j])]]

\* The paths LittleFS.open cannot open in the given mode.
CannotOpen(f, path, mode) ==
    /\ path # RootPath
    /\ \/ ~IsEntryPath(path)
       \/ mode = FILE_READ /\ f[EntryOf(path)].kind = "none"

ReadHeader(err, offset, length) == <<err>> \o LE(offset, 4) \o LE(length, 4)

(***************************************************************************)
(* C1.  Under Spec.                                                         *)
(***************************************************************************)
\* C1: whenever handlePacket returns true, for whatever payload and filesystem,
\* the command byte of the response is the opcode of the request.
C1_EchoesOpcode == ret = "true" => rsp.command = cmd.command

\* An APPEND the medium did not take whole: the error response echoes APPEND.
C1_Witness ==
    /\ ret = "true" /\ cmd.command = APPEND /\ rsp.command = APPEND
    /\ Payload(rsp) = <<WRITE_FAILED>>

(***************************************************************************)
(* C2.  Under Spec.                                                         *)
(***************************************************************************)
\* C2: a LIST of the root directory from index i, when K is the number of
\* entries from i on that fit in the capacity one after the other, answers with
\* exactly the records of those K entries, each whole, and nothing else (no
\* part of entry K + 1, no error code).
C2_ListFits ==
    \A i \in 0..MaxIndex :
        (ret = "true" /\ cmd = ListReq(i, RootPath)) =>
            Payload(rsp) = RecordsFrom(fs, Listing(fs), i, FitCount(fs, i, rsp.cap))

\* Three entries, asked from index 1 with room for one record and not for two.
C2_Witness ==
    /\ ret = "true" /\ cmd = ListReq(1, RootPath) /\ Len(Listing(fs)) = 3
    /\ FitCount(fs, 1, rsp.cap) = 1
    /\ Len(ParseEntries(Payload(rsp))) = 1

(***************************************************************************)
(* C3.  Under SpecPage.                                                     *)
(***************************************************************************)
\* C3: a host that lists from index 0 and asks again from the index advanced by
\* the number of entries it received, until a response is empty, has then
\* gathered the entries of the directory, all of them, once each and in order.
C3_PagesGiveListing == page.done => page.acc = DirEntries(fs)

(***************************************************************************)
(* C4, C5.  Under SpecSeq.                                                  *)
(***************************************************************************)
\* C4: after a WRITE of D that was answered NONE and left a regular file at the
\* path, a READ of that path with offset 0 and length |D|, with room for the
\* header and |D| bytes, answers NONE, offset 0, length |D| and the bytes D.
C4_WriteThenRead ==
    \A D \in SeqContents :
        (/\ ret = "true" /\ hist # <<>>
         /\ hist[Len(hist)].cmd = WriteReq(WRITE, PathOf("a"), D)
         /\ hist[Len(hist)].payload = <<NONE>>
         /\ hist[Len(hist)].after.kind = "file"
         /\ cmd = ReadReq(PathOf("a"), 0, Len(D))
         /\ 9 + Len(D) <= rsp.cap)
        => Payload(rsp) = ReadHeader(NONE, 0, Len(D)) \o D

\* Two bytes written over a file that held another byte, and read back.
C4_Witness ==
    /\ ret = "true" /\ Len(hist) = 2
    /\ hist[2].cmd = WriteReq(WRITE, PathOf("a"), <<66, 67>>)
    /\ hist[2].payload = <<NONE>>
    /\ hist[2].before = [kind |-> "file", data |-> <<65>>]
    /\ cmd = ReadReq(PathOf("a"), 0, 2)
    /\ Payload(rsp) = ReadHeader(NONE, 0, 2) \o <<66, 67>>

\* C5: after an APPEND of A to a file that was absent or empty and an APPEND of
\* B to the same file, both answered NONE, a READ from offset 0 of at least the
\* file's length, with room for it, answers NONE and A followed by B.
C5_AppendTwice ==
    \A A \in SeqContents, B \in SeqContents, length \in 0..(MaxFileLen + 1) :
        (/\ ret = "true" /\ Len(hist) = 2
         /\ hist[1].cmd = WriteReq(APPEND, PathOf("a"), A)
         /\ hist[1].payload = <<NONE>>
         /\ hist[1].before \in {Absent, EmptyFile}
         /\ hist[2].cmd = WriteReq(APPEND, PathOf("a"), B)
         /\ hist[2].payload = <<NONE>>
         /\ cmd = ReadReq(PathOf("a"), 0, length)
         /\ length >= Len(A) + Len(B)
         /\ 9 + length <= rsp.cap)
        => Payload(rsp) = ReadHeader(NONE, 0, Len(A) + Len(B)) \o A \o B

\* 65 appended to an absent file, then 66, then the file read whole.
C5_Witness ==
    /\ ret = "true" /\ Len(hist) = 2
    /\ hist[1].cmd = WriteReq(APPEND, PathOf("a"), <<65>>) /\ hist[1].before = Absent
    /\ hist[2].cmd = WriteReq(APPEND, PathOf("a"), <<66>>)
    /\ hist[1].payload = <<NONE>> /\ hist[2].payload = <<NONE>>
    /\ cmd = ReadReq(PathOf("a"), 0, 2)
    /\ Payload(rsp) = ReadHeader(NONE, 0, 2) \o <<65, 66>>

(***************************************************************************)
(* C6 .. C10.  Under Spec.                                                  *)
(***************************************************************************)
\* C6: a READ that asks for more bytes than the response has room for after
\* its 9-byte header answers READ_FAILED, the offset asked for and length 0,
\* with no byte after the header, and calls the filesystem not at all, whether
\* the path exists or not.
C6_ReadTooLong ==
    \A path \in FilePaths, offset \in Offsets, length \in Lengths :
        (/\ ret = "true" /\ cmd = ReadReq(path, offset, length)
         /\ rsp.cap >= 9 /\ length > rsp.cap - 9)
        => /\ Payload(rsp) = ReadHeader(READ_FAILED, offset, 0)
           /\ calls = <<>>

\* Two bytes asked of an absent file, from offset 300, with room for one.
C6_Witness ==
    /\ ret = "true" /\ cmd = ReadReq(PathOf("a"), 300, 2) /\ rsp.cap = 10
    /\ fs["a"].kind = "none"
    /\ Payload(rsp) = ReadHeader(READ_FAILED, 300, 0)

\* C7: a READ (that passed the capacity check), WRITE or APPEND of a path that
\* cannot be opened answers UNABLE_TO_OPEN_FILE with nothing after the fixed
\* fields, and the open is the only call the filesystem gets.
C7_CannotOpen ==
    /\ \A path \in FilePaths, offset \in Offsets, length \in Lengths :
        (/\ ret = "true" /\ cmd = ReadReq(path, offset, length)
         /\ rsp.cap >= 9 /\ length <= rsp.cap - 9
         /\ CannotOpen(fs, path, FILE_READ))
        => /\ Payload(rsp) = ReadHeader(UNABLE_TO_OPEN_FILE, offset, length)
           /\ calls = <<"open">>
    /\ \A c \in {WRITE, APPEND}, path \in FilePaths, bytes \in Contents :
        (/\ ret = "true" /\ cmd = WriteReq(c, path, bytes)
         /\ rsp.cap >= 1
         /\ CannotOpen(fs, path, IF c = WRITE THEN FILE_WRITE ELSE FILE_APPEND))
        => /\ Payload(rsp) = <<UNABLE_TO_OPEN_FILE>>
           /\ calls = <<"open">>

\* An APPEND below a directory that does not exist.
C7_Witness ==
    /\ ret = "true" /\ cmd = WriteReq(APPEND, OrphanPath, <<65>>) /\ rsp.cap = 40
    /\ Payload(rsp) = <<UNABLE_TO_OPEN_FILE>> /\ calls = <<"open">>

\* C8: when handlePacket has returned, no file or directory is held open.
C8_AllClosed == ret \in {"true", "false"} => open = 0

\* A READ of a directory: opened, the seek refused, and no close called.
C8_Witness ==
    /\ ret = "true" /\ cmd.command = READ /\ calls = <<"open", "seek">>
    /\ Payload(rsp) # <<>> /\ Payload(rsp)[1] = SEEK_FAILED /\ open = 0

\* C9: a request cut short of the fields its opcode needs is answered with an
\* error code, and the filesystem is not called.
C9_ShortIsRefused ==
    cmd \in ShortRequests =>
        /\ ret = "true" /\ calls = <<>>
        /\ Len(Payload(rsp)) >= 1 /\ Payload(rsp)[1] # NONE

\* C10: the bytes written into the response's buffer stay within its capacity.
C10_WithinCapacity == Len(rsp.mem) <= rsp.cap

(***************************************************************************)
(* C11 .. C13.  Under Spec.                                                 *)
(***************************************************************************)
\* C11: a MKDIR of a path that names nothing yet answers NONE and makes the
\* directory; an RMDIR of the same path right after a MKDIR that answered NONE
\* answers NONE and leaves the directory absent and nothing else changed; an
\* RMDIR of a directory that does not exist answers RMDIR_FAILED and leaves the
\* filesystem as it was.
C11_MkDirRmDir ==
    [][cmd'.command \in {MKDIR, RMDIR} => \A n \in Names :
        /\ (/\ cmd' = PathReq(MKDIR, PathOf(n)) /\ rsp'.cap >= 1
            /\ fs[n].kind = "none")
           => /\ ret' = "true" /\ Payload(rsp') = <<NONE>>
              /\ fs' = [fs EXCEPT ![n] = EmptyDir]
        /\ (/\ cmd = PathReq(MKDIR, PathOf(n)) /\ Payload(rsp) = <<NONE>>
            /\ cmd' = PathReq(RMDIR, PathOf(n)) /\ rsp'.cap >= 1)
           => /\ ret' = "true" /\ Payload(rsp') = <<NONE>>
              /\ fs' = [fs EXCEPT ![n] = Absent]
        /\ (/\ cmd' = PathReq(RMDIR, PathOf(n)) /\ rsp'.cap >= 1
            /\ fs[n].kind = "none")
           => /\ ret' = "true" /\ Payload(rsp') = <<RMDIR_FAILED>>
              /\ fs' = fs
    ]_vars

\* A directory removed while a file and another directory stay.
C11_Witness ==
    /\ ret = "true" /\ cmd = PathReq(RMDIR, PathOf("bb")) /\ Payload(rsp) = <<NONE>>
    /\ calls = <<"rmdir">>
    /\ fs["bb"] = Absent /\ fs["a"].kind = "file" /\ fs["d"].kind = "dir"

\* The steps the next three operators speak of: what the request at hand did to
\* the entry a path names.
MadeDir(path) ==
    /\ IsEntryPath(path) /\ fs[EntryOf(path)].kind = "none"
    /\ fs' = [fs EXCEPT ![EntryOf(path)] = EmptyDir]
Removed(path, kind) ==
    /\ IsEntryPath(path) /\ fs[EntryOf(path)].kind = kind
    /\ fs' = [fs EXCEPT ![EntryOf(path)] = Absent]
\* The number of bytes of a WRITE or APPEND that reached the file at path.
Accepted(c, path) ==
    IF ~IsEntryPath(path) \/ fs'[EntryOf(path)].kind # "file" THEN 0
    ELSE IF c = WRITE \/ fs[EntryOf(path)].kind # "file" THEN Len(fs'[EntryOf(path)].data)
    ELSE Len(fs'[EntryOf(path)].data) - Len(fs[EntryOf(path)].data)

\* C12: with room for one byte, the response of a FORMAT, MKDIR, REMOVE, RMDIR,
\* WRITE or APPEND is one error-code byte: NONE when the operation took effect,
\* and otherwise the code of the step that failed (FORMAT_FAILED, MKDIR_FAILED,
\* REMOVE_FAILED, RMDIR_FAILED with the filesystem unchanged; UNABLE_TO_OPEN_FILE
\* when the file cannot be opened, else WRITE_FAILED when fewer bytes than the
\* request's length reached the file); the handler returns in every case.
C12_OneErrorByte ==
    [][(rsp'.cap >= 1 /\ cmd'.command \in {FORMAT, MKDIR, REMOVE, RMDIR, WRITE, APPEND}) =>
        /\ cmd' = MkCmd(FORMAT, <<>>) =>
            /\ ret' = "true"
            /\ \/ Payload(rsp') = <<NONE>> /\ fs' = EmptyFs
               \/ Payload(rsp') = <<FORMAT_FAILED>> /\ fs' = fs
        /\ \A path \in DirPaths \cup FilePaths :
            /\ cmd' = PathReq(MKDIR, path) =>
                /\ ret' = "true"
                /\ IF MadeDir(path) THEN Payload(rsp') = <<NONE>>
                   ELSE Payload(rsp') = <<MKDIR_FAILED>> /\ fs' = fs
            /\ cmd' = PathReq(RMDIR, path) =>
                /\ ret' = "true"
                /\ IF Removed(path, "dir") THEN Payload(rsp') = <<NONE>>
                   ELSE Payload(rsp') = <<RMDIR_FAILED>> /\ fs' = fs
            /\ cmd' = PathReq(REMOVE, path) =>
                /\ ret' = "true"
                /\ IF Removed(path, "file") THEN Payload(rsp') = <<NONE>>
                   ELSE Payload(rsp') = <<REMOVE_FAILED>> /\ fs' = fs
        /\ \A c \in {WRITE, APPEND}, path \in FilePaths, bytes \in Contents :
            cmd' = WriteReq(c, path, bytes) =>
                /\ ret' = "true"
                /\ Payload(rsp') =
                     IF CannotOpen(fs, path, IF c = WRITE THEN FILE_WRITE ELSE FILE_APPEND)
                     THEN <<UNABLE_TO_OPEN_FILE>>
                     ELSE IF Accepted(c, path) < Len(bytes) THEN <<WRITE_FAILED>>
                     ELSE <<NONE>>
    ]_vars

\* An APPEND of two bytes to a file with room for one more.
C12_Witness ==
    /\ ret = "true" /\ cmd = WriteReq(APPEND, PathOf("a"), <<66, 67>>)
    /\ Payload(rsp) = <<WRITE_FAILED>> /\ fs["a"].data = <<65, 66>>

\* C13: a call of handlePacket that returns, returns true exactly when the
\* opcode of the request is one of the eleven of Commands; for every other
\* opcode it returns false, leaves the response packet as it was handed in and
\* calls the filesystem not at all.
C13_TrueIffKnown ==
    ret # "none" =>
        /\ ret \in {"true", "false"} => (ret = "true" <=> cmd.command \in Commands)
        /\ cmd.command \notin Commands =>
            ret = "false" /\ rsp = NewPacket(rsp.cap) /\ calls = <<>>

\* The opcode next after RMDIR.
C13_Witness ==
    /\ ret = "false" /\ cmd.command = RMDIR + 1 /\ rsp = NewPacket(40) /\ calls = <<>>
    /\ fs # EmptyFs

(***************************************************************************)
(* C14 .. C20.  Under Spec.                                                 *)
(***************************************************************************)
\* The two fields of an INFO response.
InfoTotal(p) == FromLE(SubSeq(Payload(p), 1, 4))
InfoUsed(p) == FromLE(SubSeq(Payload(p), 5, 8))

\* C14: an INFO, with room for its 8 bytes, reports the totalBytes and the
\* usedBytes of the filesystem as it is when the request is handled; right
\* after a FORMAT that answered NONE it reports the usedBytes of an empty
\* filesystem, and the totalBytes is the same at every INFO.
C14_InfoIsCurrent ==
    [][(cmd' = MkCmd(INFO, <<>>) /\ rsp'.cap >= 8) =>
        /\ ret' = "true" /\ Len(Payload(rsp')) = 8
        /\ InfoTotal(rsp') = totalBytes(fs) /\ InfoUsed(rsp') = usedBytes(fs)
        /\ InfoTotal(rsp') = totalBytes(EmptyFs)
        /\ (cmd = MkCmd(FORMAT, <<>>) /\ Payload(rsp) = <<NONE>>)
            => InfoUsed(rsp') = usedBytes(EmptyFs)
    ]_vars

\* An INFO of a filesystem that holds two directories.
C14_Witness ==
    /\ ret = "true" /\ cmd = MkCmd(INFO, <<>>) /\ rsp.cap = 10
    /\ Cardinality({n \in Names : fs[n].kind = "dir"}) = 2
    /\ InfoUsed(rsp) = usedBytes(fs) /\ InfoUsed(rsp) > usedBytes(EmptyFs)
    /\ calls = <<"totalBytes", "usedBytes">>

\* The READ requests with all their fields.
ReadRequests ==
    {ReadReq(path, offset, length) : path \in FilePaths, offset \in Offsets, length \in Lengths}

\* C15: the response of a READ, whatever its error code, holds the three
\* header fields, and the number of bytes after them is the length the header
\* reports.
C15_LengthCountsData ==
    (ret = "true" /\ cmd \in ReadRequests /\ rsp.cap >= 9) =>
        /\ Len(Payload(rsp)) >= 9
        /\ Len(Payload(rsp)) - 9 = FromLE(SubSeq(Payload(rsp), 6, 9))

\* C16: a READ of a regular file from an offset within it, of a length that
\* fits the response, answers NONE, the offset asked for, the length
\* min(length asked for, size - offset) and the file's bytes from the offset on,
\* that many: fewer than asked for at the end of the file, and no error.
C16_ReadReturnsBytes ==
    \A offset \in Offsets, length \in Lengths :
        (/\ ret = "true" /\ cmd = ReadReq(PathOf("a"), offset, length)
         /\ fs["a"].kind = "file" /\ offset <= Len(fs["a"].data)
         /\ 9 + length <= rsp.cap)
        => LET n == Min(length, Len(fs["a"].data) - offset)
           IN  Payload(rsp) = ReadHeader(NONE, offset, n)
                              \o SubSeq(fs["a"].data, offset + 1, offset + n)

\* Two bytes asked from offset 1 of a file of two: one byte comes back.
C16_Witness ==
    /\ ret = "true" /\ cmd = ReadReq(PathOf("a"), 1, 2) /\ rsp.cap = 40
    /\ fs["a"] = [kind |-> "file", data |-> <<66, 67>>]
    /\ Payload(rsp) = ReadHeader(NONE, 1, 1) \o <<67>>
    /\ calls = <<"open", "seek", "read", "close">>

(***************************************************************************)
(* C17.  Under SpecSeq.                                                     *)
(***************************************************************************)
\* What PathOf("a") named before the exchange at hand.
Before == IF hist = <<>> THEN Absent ELSE hist[Len(hist)].after

\* C17: after a WRITE of D, answered NONE, to a path that held a file with
\* content C, the file holds exactly D; after such an APPEND it holds C
\* followed by D.
C17_ReplacesOrExtends ==
    \A D \in SeqContents :
        /\ (/\ ret = "true" /\ cmd = WriteReq(WRITE, PathOf("a"), D)
            /\ Payload(rsp) = <<NONE>> /\ Before.kind = "file")
           => fs["a"] = [kind |-> "file", data |-> D]
        /\ (/\ ret = "true" /\ cmd = WriteReq(APPEND, PathOf("a"), D)
            /\ Payload(rsp) = <<NONE>> /\ Before.kind = "file")
           => fs["a"] = [kind |-> "file", data |-> Before.data \o D]

\* One byte written over a file of two, which another exchange had left there.
C17_Witness ==
    /\ ret = "true" /\ cmd = WriteReq(WRITE, PathOf("a"), <<65>>)
    /\ Payload(rsp) = <<NONE>> /\ Before = [kind |-> "file", data |-> <<66, 67>>]
    /\ fs["a"].data = <<65>>

C20_ReadOnly ==
    [][cmd'.command \in {INFO, LIST, READ} => fs' = fs]_vars

\* A READ of a file that does not exist, beside a directory that does.
C20_Witness ==
    /\ ret = "true" /\ cmd = ReadReq(PathOf("a"), 0, 1) /\ rsp.cap = 40
    /\ Payload(rsp) = ReadHeader(UNABLE_TO_OPEN_FILE, 0, 1)
    /\ fs["a"] = Absent /\ fs["bb"] = EmptyDir

\* What handlePacket does with request c and a response of capacity cap in the
\* state at hand, when the memory of its handler's locals holds what env says.
Outcome(c, cap, env) ==
    LET r == handlePacket(c, NewPacket(cap), NewWorld(fs, open), env)
    IN  <<r.ret, r.rsp, r.w.fs>>

\* C19: what handlePacket answers and what it leaves in the filesystem is
\* decided by the request, the capacity of the response and the filesystem
\* before: whatever earlier calls left in the memory that the handler's locals
\* occupy, the outcome is the same.
C19_NoMemory ==
    [][\E ok \in BOOLEAN : \A env \in Unset \cup {Env0} :
            <<ret', rsp', fs'>> = Outcome(cmd', rsp'.cap, [env EXCEPT !.formatOk = ok])
    ]_vars

(***************************************************************************)
(* C21.  Under Spec.                                                        *)
(***************************************************************************)
\* The LIST requests of the model that name a directory other than the root.
ListOtherRequests == {ListReq(0, dirName) : dirName \in DirPaths \cup {OrphanPath}}

\* C21: in the answer to a LIST of the root directory from index i, the j-th
\* entry (j = 0, 1, ...) carries index i + j and is entry i + j of the
\* traversal: it has that entry's name, and its flags byte is 1 when that entry
\* is a directory and 0 when it is not.  A LIST from an index at or past the
\* number of entries, and a LIST of a directory that cannot be opened, return
\* true with a LIST response that holds no entry and no error code.
C21_EntriesNumbered ==
    /\ \A i \in 0..MaxIndex :
        (ret = "true" /\ cmd = ListReq(i, RootPath)) =>
            LET got == ParseEntries(Payload(rsp))
                ls == Listing(fs)
            IN  /\ rsp.command = LIST
                /\ \A j \in 1..Len(got) :
                    /\ got[j].index = i + j - 1
                    /\ i + j <= Len(ls)
                    /\ got[j].name = NameBytes(ls[i + j])
                    /\ got[j].flags = IF fs[ls[i + j]].kind = "dir" THEN DIR ELSE 0
                /\ i >= Len(ls) => Payload(rsp) = <<>>
    /\ (ret # "none" /\ cmd \in ListOtherRequests
            /\ CannotOpen(fs, SubSeq(cmd.data, 3, Len(cmd.data) - 1), FILE_READ)) =>
        ret = "true" /\ rsp.command = LIST /\ Payload(rsp) = <<>>

\* A file and two directories, listed from index 1 with room for both of the
\* directories.
C21_Witness ==
    /\ ret = "true" /\ cmd = ListReq(1, RootPath) /\ rsp.cap = 40
    /\ fs["a"].kind = "file" /\ Len(Listing(fs)) = 3
    /\ Len(ParseEntries(Payload(rsp))) = 2
    /\ ParseEntries(Payload(rsp))[2].index = 2

====
